---- MODULE Spec2Model ----
(***************************************************************************)
(* The resource obfuscator of aapt2 (tools/aapt2/optimize/Obfuscator.cpp): *)
(* Obfuscator::Consume runs the key-string-pool collapse over every entry  *)
(* of a resource table and then, when enabled, shortens the path of every  *)
(* file reference.  Strings that the code inspects character by character  *)
(* (file paths, aliases) are sequences of one-character strings.           *)
(***************************************************************************)
EXTENDS Integers, Sequences, FiniteSets, TLC

\* ------------------------------------------------------------------ bounds
\* Largest number of explicit file references in a table.
MaxRefs == 5
\* Largest number of entries in a table.
MaxEntries == 2
\* Largest number of Consume calls on one Obfuscator.
MaxRuns == 2
\* Consume is repeated on the same Obfuscator only for tables with at most
\* this many file references.
MaxRepeatRefs == 1
\* A second table holding the same paths in another order is built only for
\* tables with at most this many file references.
MaxReorderRefs == 2

\* ------------------------------------------------------- program constants
base64_chars ==
  <<"A", "B", "C", "D", "E", "F", "G", "H", "I", "J", "K", "L", "M", "N", "O", "P",
    "Q", "R", "S", "T", "U", "V", "W", "X", "Y", "Z", "a", "b", "c", "d", "e", "f",
    "g", "h", "i", "j", "k", "l", "m", "n", "o", "p", "q", "r", "s", "t", "u", "v",
    "w", "x", "y", "z", "0", "1", "2", "3", "4", "5", "6", "7", "8", "9", "-", "_">>

\* num_resources above which OptimalShortenedLength returns 3.
ShortenThreshold == 4000

\* The characters that occur in paths, in ascending order of their codes.
CharOrder ==
  <<"-", ".", "/", "0", "1", "2", "3", "4", "5", "6", "7", "8", "9", "A", "B", "C",
    "D", "E", "F", "G", "H", "I", "J", "K", "L", "M", "N", "O", "P", "Q", "R", "S",
    "T", "U", "V", "W", "X", "Y", "Z", "_", "a", "b", "c", "d", "e", "f", "g", "h",
    "i", "j", "k", "l", "m", "n", "o", "p", "q", "r", "s", "t", "u", "v", "w", "x",
    "y", "z">>

Digits == <<"0", "1", "2", "3", "4", "5", "6", "7", "8", "9">>

ResPrefix == <<"r", "e", "s", "/">>
ResColor == <<"r", "e", "s", "/", "c", "o", "l", "o", "r">>
ResColorDir == <<"r", "e", "s", "/", "c", "o", "l", "o", "r", "/">>

\* ------------------------------------------------------------ input values
PathFoo == <<"r", "e", "s", "/", "d", "r", "a", "w", "a", "b", "l", "e", "/", "f", "o", "o", ".", "p", "n", "g">>
PathBar == <<"r", "e", "s", "/", "d", "r", "a", "w", "a", "b", "l", "e", "/", "b", "a", "r", ".", "p", "n", "g">>
PathLayout == <<"r", "e", "s", "/", "l", "a", "y", "o", "u", "t", "/", "a", ".", "x", "m", "l">>
PathColor == <<"r", "e", "s", "/", "c", "o", "l", "o", "r", "-", "v", "2", "6", "/", "c", ".", "x", "m", "l">>
Paths == {PathFoo, PathBar, PathLayout, PathColor}

\* The shortened paths of the collision scenario with alias "Ab".
ShortAb == <<"r", "e", "s", "/", "A", "b", ".", "p", "n", "g">>
ShortAb1 == <<"r", "e", "s", "/", "A", "b", "1", ".", "p", "n", "g">>

\* Values std::hash may give a path: 1728 and 5824 agree on the two low
\* sextets (alias "Ab") and differ on the third; 5 gives alias "FA".
HashValues == {1728, 5824, 5}

\* Further file references of the table, all with pairwise distinct paths under
\* res/color, that precede the explicit ones in the traversal.
BulkChoices == {0, ShortenThreshold - MaxRefs + 1}

PackageNames == {"com.app"}
TypeNames == {"string", "drawable"}
EntryNames == {"", "foo", "bar"}
\* 0x7f010000 and 0x7f010001
ResourceIds == {2130771968, 2130771969}
NoId == [has_value |-> FALSE, id |-> 0]
SomeId(n) == [has_value |-> TRUE, id |-> n]

ResourceName(p, t, e) == [package |-> p, type |-> t, entry |-> e]
ExemptionUniverse ==
  {ResourceName("", "string", "foo"), ResourceName("com.app", "string", "foo"),
   ResourceName("", "drawable", "foo")}

EntryUniverse ==
  [package : PackageNames, type : {"string"}, name : EntryNames,
   id : {NoId} \cup {SomeId(n) : n \in ResourceIds}, overlayable_item : BOOLEAN]

BoundedSeq(S, n) == UNION {[1..k -> S] : k \in 0..n}
Range(s) == {s[k] : k \in DOMAIN s}

\* A table holds one entry per name of a type, and one entry per resource id.
ValidEntries(es) ==
  \A a, b \in DOMAIN es :
    a # b => /\ es[a].name # es[b].name
             /\ (es[a].id.has_value /\ es[b].id.has_value => es[a].id.id # es[b].id.id)

EmptyMap == <<>>

\* ------------------------------------------------------------------ state
VARIABLES
  entries,                  \* the table's entries, in traversal order
  refs,                     \* path of each file reference, in traversal order
  bulk,                     \* number of further res/color file references
  shorten_resource_paths,   \* OptimizeOptions::shorten_resource_paths
  collapse_key_stringpool,  \* TableFlattenerOptions::collapse_key_stringpool
  name_collapse_exemptions, \* TableFlattenerOptions::name_collapse_exemptions
  id_resource_map,          \* TableFlattenerOptions::id_resource_map
  shortened_path_map,       \* TableFlattenerOptions::shortened_path_map
  pc,                       \* position of Consume: ready, collect, shorten, retry
  idx,                      \* next file reference of the collecting traversal
  file_refs,                \* the std::set of file references, in iteration order
  num_chars,                \* alias length chosen for this run
  pos,                      \* next element of file_refs to shorten
  shortened_paths,          \* shortened paths assigned in this run
  shortened_filename,       \* alias of the file reference being shortened
  extension,                \* extension of the file reference being shortened
  collision_count,          \* its collision counter
  hash_memo,                \* values std::hash has given so far
  runs,                     \* Consume calls begun on this Obfuscator
  result,                   \* what the last Consume returned
  orig,                     \* history: refs when the current Consume began
  path_map0,                \* history: shortened_path_map at that moment
  id_map0,                  \* history: id_resource_map at that moment
  classified,               \* history: outcome reported for each entry visited
  processed,                \* history: file references shortened in this run
  prev,                     \* history: path maps of an earlier Obfuscator
  observed                  \* last direct call of ObfuscateResourceName

vars ==
  <<entries, refs, bulk, shorten_resource_paths, collapse_key_stringpool,
    name_collapse_exemptions, id_resource_map, shortened_path_map, pc, idx,
    file_refs, num_chars, pos, shortened_paths, shortened_filename, extension,
    collision_count, hash_memo, runs, result, orig, path_map0, id_map0,
    classified, processed, prev, observed>>

tableVars == <<entries, bulk>>
optionVars ==
  <<shorten_resource_paths, collapse_key_stringpool, name_collapse_exemptions>>
loopVars ==
  <<shortened_filename, extension, collision_count>>
histVars == <<orig, path_map0, id_map0, classified, prev, observed>>

\* ---------------------------------------------------------- string helpers
StartsWith(s, prefix) ==
  /\ Len(s) >= Len(prefix)
  /\ SubSeq(s, 1, Len(prefix)) = prefix

Ord(c) == CHOOSE k \in 1..Len(CharOrder) : CharOrder[k] = c

\* std::string::compare: negative, zero or positive.
RECURSIVE StringCompare(_, _)
StringCompare(a, b) ==
  IF a = <<>> /\ b = <<>> THEN 0
  ELSE IF a = <<>> THEN -1
  ELSE IF b = <<>> THEN 1
  ELSE IF Head(a) = Head(b) THEN StringCompare(Tail(a), Tail(b))
  ELSE IF Ord(Head(a)) < Ord(Head(b)) THEN -1 ELSE 1

\* std::to_string of a non-negative int.
RECURSIVE to_string(_)
to_string(n) ==
  IF n < 10 THEN <<Digits[n + 1]>>
  ELSE to_string(n \div 10) \o <<Digits[(n % 10) + 1]>>

\* util::ExtractResFilePathParts: the path up to and including its last "/"
\* after "res/", the file name up to its first ".", and the rest; all three
\* stay empty when the path does not start with "res/" or has no later "/".
ExtractResFilePathParts(path) ==
  LET slashes == {k \in (Len(ResPrefix) + 1)..Len(path) : path[k] = "/"}
      empty == [res_subdir |-> <<>>, actual_filename |-> <<>>, extension |-> <<>>]
  IN IF ~StartsWith(path, ResPrefix) \/ slashes = {} THEN empty
     ELSE LET last == CHOOSE k \in slashes : \A j \in slashes : j <= k
              dots == {k \in last..Len(path) : path[k] = "."}
              dot == IF dots = {} THEN Len(path) + 1
                     ELSE CHOOSE k \in dots : \A j \in dots : k <= j
          IN [res_subdir |-> SubSeq(path, 1, last),
              actual_filename |-> SubSeq(path, last + 1, dot - 1),
              extension |-> SubSeq(path, dot, Len(path))]

\* A variant that assigns as operator[] does: an existing key gets the new value.
MapInsertOverwrite(m, k, v) ==
  [x \in (DOMAIN m) \cup {k} |-> IF x = k THEN v ELSE m[x]]

\* std::map::insert and std::unordered_map::insert: an existing key keeps its value.
MapInsert(m, k, v) ==
  IF k \in DOMAIN m THEN m
  ELSE [x \in (DOMAIN m) \cup {k} |-> IF x = k THEN v ELSE m[x]]

\* ------------------------------------------------------- path shortening
\* The sextets of the hash, least significant first, as base64_chars.
RECURSIVE ShortenFileName(_, _)
ShortenFileName(hash_num, output_length) ==
  IF output_length <= 0 THEN <<>>
  ELSE <<base64_chars[(hash_num % 64) + 1]>>
         \o ShortenFileName(hash_num \div 64, output_length - 1)

OptimalShortenedLength(num_resources) ==
  IF num_resources > ShortenThreshold THEN 3 ELSE 2

GetShortenedPath(filename, ext, count) ==
  ResPrefix \o filename \o (IF count > 0 THEN to_string(count) ELSE <<>>) \o ext

\* PathComparator::operator(): the int of compare() converted to bool, so it
\* is true exactly when the two paths differ.
PathComparator(lhs_path, rhs_path) == StringCompare(lhs_path, rhs_path) # 0

\* Two keys are equivalent for the set when neither compares before the other.
Equivalent(a, b) == ~PathComparator(a, b) /\ ~PathComparator(b, a)

\* file_refs.insert(file_ref).  PathComparator is no strict weak ordering, so
\* the standard leaves the outcome open.  A new key compares "less" than every
\* key with another path, so the descent goes left at each of them and the key
\* lands before all of them; it is recognised as present only when a key with
\* an equal path lies on that descent.  The first key of the set (the leftmost
\* node, a leaf) and the second (its parent) always do; any other key may or
\* may not, depending on the shape of the tree.
SetInsert(set, file_ref, path) ==
  LET equal == {k \in 1..Len(set) : Equivalent(path[set[k]], path[file_ref])}
  IN IF equal = {} THEN {<<file_ref>> \o set}
     ELSE IF equal \cap {1, 2} # {} THEN {set}
     ELSE {set, <<file_ref>> \o set}

\* A variant that skips the plain res/color/ directory only.
SkipColorDirOnly(res_subdir) == StartsWith(res_subdir, ResColorDir)

\* Line 107: Android detects ColorStateLists via pathname, skip res/color*.
SkipColorStateList(res_subdir) == StartsWith(res_subdir, ResColor)

\* Line 112: the candidate is already assigned.
Collides(shortened_path, assigned) == shortened_path \in assigned

\* A variant that does not record the assigned path.
InsertAssignedForgotten(assigned, shortened_path) == assigned

\* Line 116: shortened_paths.insert(shortened_path).
InsertAssigned(assigned, shortened_path) == assigned \cup {shortened_path}

\* std::hash<StringPiece>: a function of the content, otherwise unspecified.
HashChoices(path) ==
  IF path \in DOMAIN hash_memo THEN {hash_memo[path]} ELSE HashValues

\* --------------------------------------------------------- name collapsing
\* A variant without the overlayable branch.
ObfuscateOverlayableToo(collapse, exemptions, type_name, entry) ==
  LET resource_name == ResourceName("", type_name, entry.name)
  IN IF ~collapse \/ resource_name \in exemptions
     THEN [result |-> "Keep_ExemptionList", resource_name |-> resource_name]
     ELSE [result |-> "Obfuscated", resource_name |-> resource_name]

\* Obfuscator::ObfuscateResourceName: what it hands to onObfuscate.
ObfuscateResourceName(collapse, exemptions, type_name, entry) ==
  LET resource_name == ResourceName("", type_name, entry.name)
  IN IF ~collapse \/ resource_name \in exemptions
     THEN [result |-> "Keep_ExemptionList", resource_name |-> resource_name]
     ELSE IF entry.overlayable_item
          THEN [result |-> "Keep_Overlayable", resource_name |-> resource_name]
          ELSE [result |-> "Obfuscated", resource_name |-> resource_name]

\* A variant that records every entry not reported Keep_ExemptionList.
onObfuscateAllButExempt(obfuscatedResult, resource_name, entryResId, map) ==
  IF obfuscatedResult # "Keep_ExemptionList"
  THEN MapInsert(map, entryResId, resource_name.entry)
  ELSE map

\* The onObfuscate lambda of HandleCollapseKeyStringPool.
onObfuscate(obfuscatedResult, resource_name, entryResId, map) ==
  IF obfuscatedResult = "Obfuscated"
  THEN MapInsert(map, entryResId, resource_name.entry)
  ELSE map

\* ResourceId::entry_id().
entry_id(id) == id % 65536

\* The entry loop of HandleCollapseKeyStringPool from entry k on: the map, and
\* the outcome reported for each entry it classified.
RECURSIVE CollapseEntries(_, _, _, _, _)
CollapseEntries(ents, k, exemptions, map, outcomes) ==
  IF k > Len(ents) THEN [map |-> map, outcomes |-> outcomes]
  ELSE LET entry == ents[k] IN
    IF ~entry.id.has_value \/ entry.name = ""
    THEN CollapseEntries(ents, k + 1, exemptions, map, outcomes)
    ELSE LET entryResId == entry.id.id
             entry_view == [name |-> entry.name,
                            id |-> entry_id(entry.id.id),
                            overlayable_item |-> entry.overlayable_item]
             r == ObfuscateResourceName(TRUE, exemptions, entry.type, entry_view)
         IN CollapseEntries(ents, k + 1, exemptions,
                            onObfuscate(r.result, r.resource_name, entryResId, map),
                            outcomes \cup {[entry |-> k, result |-> r.result]})

HandleCollapseKeyStringPool(ents, collapse, exemptions, map) ==
  IF ~collapse THEN [map |-> map, outcomes |-> {}]
  ELSE CollapseEntries(ents, 1, exemptions, map, {})

\* ------------------------------------------------------------------- Init
NotCalled ==
  [called |-> FALSE, collapse |-> FALSE, exemptions |-> {}, type_name |-> "",
   entry |-> [name |-> "", overlayable_item |-> FALSE],
   result |-> "", resource_name |-> ResourceName("", "", "")]

\* The state after Obfuscator's constructor, for a given table and options.
Constructed(es, rs, b, shorten, collapse, exemptions) ==
  /\ entries = es
  /\ refs = rs
  /\ bulk = b
  /\ shorten_resource_paths = shorten
  /\ collapse_key_stringpool = collapse
  /\ name_collapse_exemptions = exemptions
  /\ id_resource_map = EmptyMap
  /\ shortened_path_map = EmptyMap
  /\ pc = "ready"
  /\ idx = 1
  /\ file_refs = <<>>
  /\ num_chars = 0
  /\ pos = 1
  /\ shortened_paths = {}
  /\ shortened_filename = <<>>
  /\ extension = <<>>
  /\ collision_count = 0
  /\ hash_memo = EmptyMap
  /\ runs = 0
  /\ result = FALSE
  /\ orig = rs
  /\ path_map0 = EmptyMap
  /\ id_map0 = EmptyMap
  /\ classified = {}
  /\ processed = <<>>
  /\ prev = {}
  /\ observed = NotCalled

\* Tables of at most n explicit file references, with path shortening enabled.
InitPathsUpTo(n) ==
  \E rs \in BoundedSeq(Paths, n), b \in BulkChoices :
    Constructed(<<>>, rs, b, TRUE, FALSE, {})

InitPaths == InitPathsUpTo(MaxRefs)

\* Tables of entries without file references, under every option.
InitNames ==
  \E es \in BoundedSeq(EntryUniverse, MaxEntries), shorten \in BOOLEAN,
     collapse \in BOOLEAN, exemptions \in SUBSET ExemptionUniverse :
    /\ ValidEntries(es)
    /\ Constructed(es, <<>>, 0, shorten, collapse, exemptions)

Init == InitPaths \/ InitNames

\* An empty table, for direct calls of Obfuscator::ObfuscateResourceName.
InitClassify == Constructed(<<>>, <<>>, 0, FALSE, FALSE, {})

\* --------------------------------------------------------------- actions
\* Obfuscator::Consume up to the call of HandleShortenFilePaths: the whole of
\* HandleCollapseKeyStringPool, then either the return or the locals of
\* HandleShortenFilePaths.
Consume ==
  /\ pc = "ready"
  /\ runs < MaxRuns
  /\ runs = 0 \/ Len(refs) <= MaxRepeatRefs
  /\ LET r == HandleCollapseKeyStringPool(entries, collapse_key_stringpool,
                                          name_collapse_exemptions, id_resource_map)
     IN /\ id_resource_map' = r.map
        /\ classified' = r.outcomes
  /\ runs' = runs + 1
  /\ orig' = refs
  /\ path_map0' = shortened_path_map
  /\ id_map0' = id_resource_map
  /\ processed' = <<>>
  /\ shortened_paths' = {}
  /\ file_refs' = <<>>
  /\ idx' = 1
  /\ pos' = 1
  /\ IF shorten_resource_paths
     THEN pc' = "collect" /\ result' = FALSE
     ELSE pc' = "ready" /\ result' = TRUE
  /\ UNCHANGED <<tableVars, optionVars, loopVars, refs, shortened_path_map,
                 num_chars, hash_memo, prev, observed>>

\* One iteration of the traversal of lines 89-100: file_refs.insert(file_ref).
CollectFileRef ==
  /\ pc = "collect"
  /\ idx <= Len(refs)
  /\ file_refs' \in SetInsert(file_refs, idx, refs)
  /\ idx' = idx + 1
  /\ UNCHANGED <<tableVars, optionVars, loopVars, histVars, refs, id_resource_map,
                 shortened_path_map, pc, num_chars, pos, shortened_paths,
                 hash_memo, runs, result, processed>>

\* Line 101, once the traversal is over.
ChooseLength ==
  /\ pc = "collect"
  /\ idx > Len(refs)
  /\ num_chars' = OptimalShortenedLength(bulk + Len(file_refs))
  /\ pos' = 1
  /\ pc' = "shorten"
  /\ UNCHANGED <<tableVars, optionVars, loopVars, histVars, refs, id_resource_map,
                 shortened_path_map, idx, file_refs, shortened_paths,
                 hash_memo, runs, result, processed>>

\* Lines 102-111 for the next element of file_refs: skip it, or hash its path
\* and form the first candidate.
ShortenBegin ==
  /\ pc = "shorten"
  /\ pos <= Len(file_refs)
  /\ LET path == refs[file_refs[pos]]
         parts == ExtractResFilePathParts(path)
     IN IF SkipColorStateList(parts.res_subdir)
        THEN /\ pos' = pos + 1
             /\ UNCHANGED <<pc, loopVars, hash_memo>>
        ELSE \E hash_num \in HashChoices(path) :
               /\ hash_memo' = MapInsert(hash_memo, path, hash_num)
               /\ shortened_filename' = ShortenFileName(hash_num, num_chars)
               /\ extension' = parts.extension
               /\ collision_count' = 0
               /\ pc' = "retry"
               /\ pos' = pos
  /\ UNCHANGED <<tableVars, optionVars, histVars, refs, id_resource_map,
                 shortened_path_map, idx, file_refs, num_chars, shortened_paths,
                 runs, result, processed>>

shortened_path == GetShortenedPath(shortened_filename, extension, collision_count)

\* Lines 112-115: one turn of the collision loop.
Retry ==
  /\ pc = "retry"
  /\ Collides(shortened_path, shortened_paths)
  /\ collision_count' = collision_count + 1
  /\ UNCHANGED <<tableVars, optionVars, histVars, refs, id_resource_map,
                 shortened_path_map, pc, idx, file_refs, num_chars, pos,
                 shortened_paths, shortened_filename, extension, hash_memo,
                 runs, result, processed>>

\* Lines 116-118: the candidate is free.
Assign ==
  /\ pc = "retry"
  /\ ~Collides(shortened_path, shortened_paths)
  /\ shortened_paths' = InsertAssigned(shortened_paths, shortened_path)
  /\ shortened_path_map' =
       MapInsert(shortened_path_map, refs[file_refs[pos]], shortened_path)
  /\ refs' = [refs EXCEPT ![file_refs[pos]] = shortened_path]
  /\ processed' = Append(processed, [path |-> refs[file_refs[pos]],
                                     alias |-> shortened_filename,
                                     extension |-> extension])
  /\ pos' = pos + 1
  /\ pc' = "shorten"
  /\ UNCHANGED <<tableVars, optionVars, loopVars, histVars, id_resource_map,
                 idx, file_refs, num_chars, hash_memo, runs, result>>

\* Line 120 and the return of Consume; the locals go out of scope.
Return ==
  /\ pc = "shorten"
  /\ pos > Len(file_refs)
  /\ result' = TRUE
  /\ pc' = "ready"
  /\ file_refs' = <<>>
  /\ shortened_paths' = {}
  /\ shortened_filename' = <<>>
  /\ extension' = <<>>
  /\ collision_count' = 0
  /\ idx' = 1
  /\ pos' = 1
  /\ UNCHANGED <<tableVars, optionVars, histVars, refs, id_resource_map,
                 shortened_path_map, num_chars, hash_memo, runs, processed>>

Reorderings(s) ==
  {[k \in 1..Len(s) |-> s[p[k]]] :
     p \in {q \in [1..Len(s) -> 1..Len(s)] : \A a, b \in 1..Len(s) : q[a] = q[b] => a = b}}

\* The caller builds a table that holds the same original paths, met in another
\* order by the traversal, and a new Obfuscator over fresh options.
NewObfuscator ==
  /\ pc = "ready"
  /\ runs = 1
  /\ prev = {}
  /\ Len(orig) <= MaxReorderRefs
  /\ refs' \in Reorderings(orig) \ {orig}
  /\ orig' = refs'
  /\ prev' = {shortened_path_map}
  /\ shortened_path_map' = EmptyMap
  /\ id_resource_map' = EmptyMap
  /\ path_map0' = EmptyMap
  /\ id_map0' = EmptyMap
  /\ classified' = {}
  /\ processed' = <<>>
  /\ runs' = 0
  /\ result' = FALSE
  /\ UNCHANGED <<tableVars, optionVars, loopVars, pc, idx, file_refs, num_chars,
                 pos, shortened_paths, hash_memo, observed>>

\* A direct call of the static Obfuscator::ObfuscateResourceName.
Classify ==
  \E collapse \in BOOLEAN, exemptions \in SUBSET ExemptionUniverse,
     type_name \in TypeNames, name \in EntryNames, overlayable \in BOOLEAN :
    LET entry == [name |-> name, overlayable_item |-> overlayable]
        r == ObfuscateResourceName(collapse, exemptions, type_name, entry)
    IN /\ observed' = [called |-> TRUE, collapse |-> collapse,
                       exemptions |-> exemptions, type_name |-> type_name,
                       entry |-> entry, result |-> r.result,
                       resource_name |-> r.resource_name]
       /\ UNCHANGED <<tableVars, optionVars, loopVars, refs, id_resource_map,
                      shortened_path_map, pc, idx, file_refs, num_chars, pos,
                      shortened_paths, hash_memo, runs, result, orig, path_map0,
                      id_map0, classified, processed, prev>>

\* The steps Consume takes on its own once it has been called.
Step == CollectFileRef \/ ChooseLength \/ ShortenBegin \/ Retry \/ Assign \/ Return

Next == Consume \/ Step \/ NewObfuscator

Spec == Init /\ [][Next]_vars

\* Consume runs to its return without waiting for anything: its steps are
\* weakly fair.  Termination is explored for tables with one file reference
\* less than the safety properties are.
InitFair == InitPathsUpTo(MaxRefs - 1) \/ InitNames

SpecFair == InitFair /\ [][Next]_vars /\ WF_vars(Step)

SpecClassify == InitClassify /\ [][Classify]_vars

Done == pc = "ready" /\ runs >= 1

\* ----------------------------------------------------------------- claims
Extends(m, n) == \A k \in DOMAIN m : k \in DOMAIN n /\ n[k] = m[k]
Injective(m) == \A a, b \in DOMAIN m : m[a] = m[b] => a = b

\* The path has a resource subdirectory that starts with "res/color".
ColorStateListPath(path) ==
  StartsWith(ExtractResFilePathParts(path).res_subdir, ResColor)

\* The entries that have a resolved id and a non-empty name.
Classifiable == {k \in DOMAIN entries : entries[k].id.has_value /\ entries[k].name # ""}

\* C1: with collapsing enabled, every classifiable entry whose (package, type,
\* name) is in name_collapse_exemptions has been reported Keep_ExemptionList
\* and its id is no key of id_resource_map.
C1_ExemptEntryKept ==
  (Done /\ collapse_key_stringpool) =>
    \A k \in Classifiable :
      ResourceName(entries[k].package, entries[k].type, entries[k].name)
          \in name_collapse_exemptions
        => /\ [entry |-> k, result |-> "Keep_ExemptionList"] \in classified
           /\ entries[k].id.id \notin DOMAIN id_resource_map

\* C2 as stated: an entry view with an overlayable marker is reported
\* Keep_Overlayable whatever the collapse flag and the exemption set are.
C2_OverlayableAlwaysReported ==
  (observed.called /\ observed.entry.overlayable_item) =>
    observed.result = "Keep_Overlayable"

\* C2 as amended: an entry view with an overlayable marker is reported
\* Keep_Overlayable when collapsing is enabled and its name (with an empty
\* package) is not exempt, and Keep_ExemptionList otherwise.
C2_OverlayableReportedUnlessExempt ==
  (observed.called /\ observed.entry.overlayable_item) =>
    observed.result =
      IF /\ observed.collapse
         /\ ResourceName("", observed.type_name, observed.entry.name)
              \notin observed.exemptions
      THEN "Keep_Overlayable" ELSE "Keep_ExemptionList"

C2_Witness ==
  /\ observed.called
  /\ observed.entry.overlayable_item
  /\ observed.result = "Keep_Overlayable"

\* C3: after a Consume that began with an empty shortened_path_map, every file
\* reference whose original path is not under res/color* holds the path that
\* shortened_path_map records for its original path.
C3_EveryEligibleRefRewritten ==
  (Done /\ shorten_resource_paths /\ path_map0 = EmptyMap) =>
    \A k \in DOMAIN refs :
      ~ColorStateListPath(orig[k]) =>
        /\ orig[k] \in DOMAIN shortened_path_map
        /\ refs[k] = shortened_path_map[orig[k]]

\* C4: a table that holds the same original paths in another traversal order
\* yields the same shortened_path_map as the table before it.
C4_OrderIndependent ==
  (Done /\ path_map0 = EmptyMap) => \A m \in prev : shortened_path_map = m

\* C5: no path under res/color* is a key of shortened_path_map, and every file
\* reference whose original path is under res/color* keeps that path.
C5_ColorPathsUntouched ==
  /\ \A p \in DOMAIN shortened_path_map : ~ColorStateListPath(p)
  /\ \A k \in DOMAIN refs : ColorStateListPath(orig[k]) => refs[k] = orig[k]

C5_Witness ==
  /\ Done
  /\ \E k \in DOMAIN refs : ColorStateListPath(orig[k])
  /\ shortened_path_map # EmptyMap

\* The file reference processed j-th is the first one with its original path.
FirstOfPath(j) == \A i \in 1..(j - 1) : processed[i].path # processed[j].path

\* The distinct original paths processed before the j-th that share its alias
\* and its extension.
EarlierCollisions(j) ==
  {i \in 1..(j - 1) : /\ FirstOfPath(i)
                      /\ processed[i].alias = processed[j].alias
                      /\ processed[i].extension = processed[j].extension}

\* C6: among the distinct original paths with one alias and one extension, the
\* first processed maps to "res/" + alias + extension and the k-th processed
\* after it to "res/" + alias + decimal k + extension.
C6_SuffixIsRankAmongCollisions ==
  (Done /\ path_map0 = EmptyMap) =>
    \A j \in DOMAIN processed :
      FirstOfPath(j) =>
        shortened_path_map[processed[j].path] =
          GetShortenedPath(processed[j].alias, processed[j].extension,
                           Cardinality(EarlierCollisions(j)))

\* C7: every alias has 2 symbols when the table holds at most 4000 distinct
\* file-reference paths and 3 symbols otherwise, the j-th symbol being the
\* alphabet character of the j-th 6-bit group of the hash from the low end.
C7_AliasLengthFromDistinctPaths ==
  pc = "retry" =>
    LET n == bulk + Cardinality(Range(orig))
        length == IF n <= 4000 THEN 2 ELSE 3
        hash_num == hash_memo[refs[file_refs[pos]]]
    IN /\ Len(shortened_filename) = length
       /\ \A j \in 1..length :
            shortened_filename[j] = base64_chars[((hash_num \div (64 ^ (j - 1))) % 64) + 1]

\* The entries the decision of the name collapse policy obfuscates: not exempt
\* under (empty package, type, name) and not overlayable.
ObfuscatedEntries ==
  {k \in Classifiable :
     /\ ResourceName("", entries[k].type, entries[k].name) \notin name_collapse_exemptions
     /\ ~entries[k].overlayable_item}

\* C8: after a Consume with collapsing enabled that began with an empty
\* id_resource_map, the map holds (full resource id -> name) for exactly the
\* classifiable entries reported Obfuscated, which are the ones neither exempt
\* nor overlayable; with collapsing disabled the map is as it was.
C8_IdMapHoldsObfuscatedEntries ==
  Done =>
    IF collapse_key_stringpool
    THEN id_map0 = EmptyMap =>
           /\ ObfuscatedEntries =
                {k \in DOMAIN entries : [entry |-> k, result |-> "Obfuscated"] \in classified}
           /\ DOMAIN id_resource_map = {entries[k].id.id : k \in ObfuscatedEntries}
           /\ \A k \in ObfuscatedEntries :
                id_resource_map[entries[k].id.id] = entries[k].name
    ELSE id_resource_map = id_map0

C8_Witness ==
  /\ Done
  /\ collapse_key_stringpool
  /\ id_resource_map # EmptyMap
  /\ \E k \in Classifiable :
       entries[k].overlayable_item /\ entries[k].id.id \notin DOMAIN id_resource_map

\* C9 as stated: after any Consume, the keys of shortened_path_map are original
\* paths of the most recent invocation only.
C9_OnlyLatestRun ==
  (Done /\ shorten_resource_paths) => DOMAIN shortened_path_map \subseteq Range(orig)

\* C9 as amended: on one Obfuscator no step removes or changes an entry of
\* shortened_path_map or id_resource_map; entries are only added.
C9_MapsOnlyGrow ==
  [][prev' = prev =>
       /\ Extends(shortened_path_map, shortened_path_map')
       /\ Extends(id_resource_map, id_resource_map')]_vars

C9_Witness ==
  /\ Done
  /\ runs = 2
  /\ \E p \in DOMAIN shortened_path_map : p \notin Range(orig)
  /\ \E p \in DOMAIN shortened_path_map : p \in Range(orig)

\* C10: in a run that began with an empty shortened_path_map the map is
\* injective and no two file references with different original paths have
\* been rewritten to one path; and every Consume that has begun returns true.
C10_DistinctAndTerminates ==
  /\ [](path_map0 = EmptyMap =>
          /\ Injective(shortened_path_map)
          /\ \A a, b \in DOMAIN refs :
               (orig[a] # orig[b] /\ refs[a] # orig[a] /\ refs[b] # orig[b])
                 => refs[a] # refs[b])
  /\ [](pc # "ready" => <>(pc = "ready" /\ result = TRUE))

C10_Witness ==
  /\ Done
  /\ path_map0 = EmptyMap
  /\ \E p, q \in DOMAIN shortened_path_map :
       shortened_path_map[p] = ShortAb /\ shortened_path_map[q] = ShortAb1
====
